---- MODULE Spec2Model ----
(***************************************************************************)
(* Model of RTL/exercises/simple_pipeline/sw/main.cpp: the host program    *)
(* of a DMA accelerator (AFU).  The program parses one argument, acquires  *)
(* the AFU, allocates and initialises two shared buffers, programs four    *)
(* registers, polls a done flag, prints the output buffer and frees.       *)
(*                                                                         *)
(* Integer widths.  TLC integers are 32 bits wide, so the program's        *)
(* 32-bit `unsigned` is modelled on UnsignedBits bits and its 64-bit       *)
(* `long` / `unsigned long` on LongBits = 2 * UnsignedBits bits, with the  *)
(* same wrap-around, truncation and saturation rules.  Every threshold of  *)
(* the program scales with them: n * 8 stops fitting in `unsigned` at      *)
(* n = 2^(UnsignedBits-3) (2^29 in the build) and a loop counter stops     *)
(* reaching n at n = 2^UnsignedBits (2^32 in the build).                   *)
(***************************************************************************)
EXTENDS Integers, Sequences, FiniteSets, TLC

VARIABLES
    argv,         \* the command line, argv[1] is the program name (C argv[0])
    pc,           \* position of main
    num_inputs,   \* main.cpp:49
    num_outputs,  \* main.cpp:50
    i,            \* the `unsigned i` of the three loops
    mem,          \* the shared buffers `input` and `output`
    buf_state,    \* per buffer: "none", "live" or "freed"
    regs,         \* the accelerator's MMIO registers
    hw_k,         \* number of output elements the accelerator has produced
    total_bytes,  \* main.cpp:91
    num_cls,      \* main.cpp:92
    exc,          \* the exception in flight, or NoExc
    afu_trace,    \* every call made on the AFU object, in order
    stdout,       \* what was written to cout
    stderr,       \* what was written to cerr
    exit_code     \* the value main returned, or NotExited

vars == <<argv, pc, num_inputs, num_outputs, i, mem, buf_state, regs, hw_k,
          total_bytes, num_cls, exc, afu_trace, stdout, stderr, exit_code>>

----------------------------------------------------------------------------
(* Bounds and program constants *)

UnsignedBits == 11
MaxPolls == 2

LongBits == 2 * UnsignedBits
UnsignedMod == 2 ^ UnsignedBits
LongMax == 2 ^ (LongBits - 1) - 1
LongMin == 0 - 2 ^ (LongBits - 1)

Multiple == 128
InputsPerOutput == 16
SizeofUnsignedLong == 8
CL_BYTES == 64
FloatMantissaBits == 24
EXIT_SUCCESS == 0
EXIT_FAILURE == 1

Uninit == -1
NotExited == -1
NoExc == "none"

Min(a, b) == IF a < b THEN a ELSE b

----------------------------------------------------------------------------
(* Strings are sequences of one-character strings. *)

Digits == <<"0", "1", "2", "3", "4", "5", "6", "7", "8", "9">>
IsDigit(c) == \E d \in 1..10 : Digits[d] = c
DigitVal(c) == (CHOOSE d \in 1..10 : Digits[d] = c) - 1
IsSpace(c) == c = " "

RECURSIVE Dec(_)
Dec(n) == IF n < 10 THEN <<Digits[n + 1]>>
          ELSE Append(Dec(n \div 10), Digits[(n % 10) + 1])

\* Index of the first character of s at or after position k that is not white space.
RECURSIVE SkipSpace(_, _)
SkipSpace(s, k) ==
    IF k <= Len(s) /\ IsSpace(s[k]) THEN SkipSpace(s, k + 1) ELSE k

\* Index one past the run of digits of s that starts at position k.
RECURSIVE DigitsEnd(_, _)
DigitsEnd(s, k) ==
    IF k <= Len(s) /\ IsDigit(s[k]) THEN DigitsEnd(s, k + 1) ELSE k

\* The number the digits s[lo..hi-1] spell, saturated at cap.
RECURSIVE DigitsValue(_, _, _, _)
DigitsValue(s, lo, hi, cap) ==
    IF hi <= lo THEN 0
    ELSE Min(cap, 10 * DigitsValue(s, lo, hi - 1, cap) + DigitVal(s[hi - 1]))

\* strtol(str, &p, 10): [num, p], p the index of the first unconverted character
\* (Len(str) + 1 is the terminating NUL).  No digits: num = 0 and p = str.
\* Out of range: the result saturates at LONG_MAX / LONG_MIN.
strtol(str) ==
    LET a == SkipSpace(str, 1)
        neg == a <= Len(str) /\ str[a] = "-"
        b == IF a <= Len(str) /\ str[a] \in {"+", "-"} THEN a + 1 ELSE a
        e == DigitsEnd(str, b)
        mag == DigitsValue(str, b, e, 0 - LongMin)
    IN IF e = b THEN [num |-> 0, p |-> 1]
       ELSE [num |-> IF neg THEN 0 - mag ELSE Min(mag, LongMax), p |-> e]


\* stringToPositiveInt: the number on return, thrown = TRUE for runtime_error.
stringToPositiveInt(str) ==
    LET r == strtol(str)
    IN IF r.p = Len(str) + 1 /\ r.num > 0
       THEN [thrown |-> FALSE, val |-> r.num]
       ELSE [thrown |-> TRUE, val |-> 0]

\* checkUsage(argc, argv, num_inputs): ret is the value returned, num_inputs the
\* value of the reference argument afterwards (old is its value before).
checkUsage(av, old) ==
    IF Len(av) = 2
    THEN LET r == stringToPositiveInt(av[2])
         IN IF r.thrown THEN [ret |-> FALSE, num_inputs |-> old]
            ELSE IF r.val % Multiple # 0
                 THEN [ret |-> FALSE, num_inputs |-> r.val]
                 ELSE [ret |-> TRUE, num_inputs |-> r.val]
    ELSE [ret |-> FALSE, num_inputs |-> old]

----------------------------------------------------------------------------
(* Command lines explored *)

ProgName == <<"a">>

ArgStrings ==
    { Dec(Multiple), Dec(2 * Multiple),
      Dec(2 ^ (UnsignedBits - 3)), Dec(2 ^ (UnsignedBits - 3) + Multiple),
      Dec(UnsignedMod), Dec(LongMax + 1), Dec(LongMax),
      Dec(100), <<"0">>, <<>>, <<"x">>, <<"+">>,
      <<"-", "1", "2", "8">>, <<"+", "1", "2", "8">>, <<" ", "1", "2", "8">>,
      <<"1", "2", "8", " ">>, <<"1", "2", "8", "x">>, <<"0", "1", "2", "8">>,
      <<"1", "2", ".", "8">> }

CommandLines ==
    {<<ProgName>>} \cup {<<ProgName, a>> : a \in ArgStrings}
        \cup {<<ProgName, Dec(Multiple), Dec(Multiple)>>}

----------------------------------------------------------------------------
(* Arithmetic of lines 91-92 *)

RECURSIVE FloatShift(_, _)
FloatShift(x, s) ==
    IF x \div (2 ^ s) < 2 ^ FloatMantissaBits THEN s ELSE FloatShift(x, s + 1)

\* (float) x for an integer x >= 0: x rounded to FloatMantissaBits significant
\* bits, ties to even.
ToFloat(x) ==
    LET s == FloatShift(x, 0)
        q == x \div (2 ^ s)
        r == x % (2 ^ s)
        half == IF s = 0 THEN 1 ELSE 2 ^ (s - 1)
        up == s > 0 /\ (r > half \/ (r = half /\ q % 2 = 1))
    IN (IF up THEN q + 1 ELSE q) * (2 ^ s)

\* ceil(a / b) for floats a >= 0 and b a power of two: the quotient is exact.
CeilQuotient(a, b) == (a + b - 1) \div b

\* unsigned total_bytes = num_inputs * sizeof(unsigned long)
TotalBytes(n) == (n * SizeofUnsignedLong) % UnsignedMod

\* unsigned num_cls = ceil((float) total_bytes / (float) AFU::CL_BYTES)
NumCls(tb) == CeilQuotient(ToFloat(tb), ToFloat(CL_BYTES)) % UnsignedMod

----------------------------------------------------------------------------
(* State *)

Exceptions ==
    {"FPGA_BUSY", "FPGA_NOT_FOUND", "FPGA_EXCEPTION", "FPGA_NO_MEMORY",
     "runtime_error", "no_driver"}

\* A buffer of n elements, element k of the program at index k + 1.
Buffer(n) == [j \in 1..n |-> Uninit]

\* One call on the AFU object: ptr is its pointer argument ("" when it has none),
\* val its integer argument or result, ok whether it returned.
Call(op, arg, ptr, val, ok) ==
    [op |-> op, arg |-> arg, ptr |-> ptr, val |-> val, ok |-> ok]
Out(kind, val) == [kind |-> kind, val |-> val]

ReadsOfDone ==
    {k \in DOMAIN afu_trace : afu_trace[k].op = "read" /\ afu_trace[k].ok}

Init ==
    /\ argv \in CommandLines
    /\ pc = "start"
    /\ num_inputs = Uninit
    /\ num_outputs = Uninit
    /\ i = 0
    /\ mem = [input |-> <<>>, output |-> <<>>]
    /\ buf_state = [input |-> "none", output |-> "none"]
    /\ regs = [MMIO_RD_ADDR |-> "null", MMIO_WR_ADDR |-> "null",
               MMIO_SIZE |-> 0, MMIO_GO |-> 0, MMIO_DONE |-> 0]
    /\ hw_k = 0
    /\ total_bytes = Uninit
    /\ num_cls = Uninit
    /\ exc = NoExc
    /\ afu_trace = <<>>
    /\ stdout = <<>>
    /\ stderr = <<>>
    /\ exit_code = NotExited

\* An AFU call that throws: the call has no effect on the device or the buffers
\* and control passes to the handlers of main.
Throws(op, arg) ==
    /\ \E e \in Exceptions : exc' = e
    /\ pc' = "catch"
    /\ afu_trace' = Append(afu_trace, Call(op, arg, "", 0, FALSE))
    /\ UNCHANGED <<argv, num_inputs, num_outputs, i, mem, buf_state, regs, hw_k,
                   total_bytes, num_cls, stderr, exit_code>>

----------------------------------------------------------------------------
(* main, lines 52-58 *)

MainCheckUsage ==
    /\ pc = "start"
    /\ LET r == checkUsage(argv, num_inputs)
       IN /\ num_inputs' = r.num_inputs
          /\ pc' = IF r.ret THEN "compute_outputs" ELSE "usage"
    /\ UNCHANGED <<argv, num_outputs, i, mem, buf_state, regs, hw_k, total_bytes,
                   num_cls, exc, afu_trace, stdout, stderr, exit_code>>

\* printUsage(argv[0]) without the return that follows it.
MainPrintUsage_NoReturn ==
    /\ pc = "usage"
    /\ stdout' = Append(stdout, Out("usage", 0))
    /\ pc' = "compute_outputs"
    /\ UNCHANGED <<argv, num_inputs, num_outputs, i, mem, buf_state, regs, hw_k,
                   total_bytes, num_cls, exc, afu_trace, stderr, exit_code>>

\* printUsage(argv[0]); return EXIT_FAILURE;
MainPrintUsage ==
    /\ pc = "usage"
    /\ stdout' = Append(stdout, Out("usage", 0))
    /\ exit_code' = EXIT_FAILURE
    /\ pc' = "exit"
    /\ UNCHANGED <<argv, num_inputs, num_outputs, i, mem, buf_state, regs, hw_k,
                   total_bytes, num_cls, exc, afu_trace, stderr>>

NumOutputs_PerCacheLine(n) == n \div SizeofUnsignedLong

NumOutputs(n) == n \div InputsPerOutput

MainComputeOutputs ==
    /\ pc = "compute_outputs"
    /\ num_outputs' = NumOutputs(num_inputs)
    /\ pc' = "construct"
    /\ UNCHANGED <<argv, num_inputs, i, mem, buf_state, regs, hw_k, total_bytes,
                   num_cls, exc, afu_trace, stdout, stderr, exit_code>>

----------------------------------------------------------------------------
(* main, lines 64-81 *)

\* AFU afu(AFU_ACCEL_UUID);
MainConstruct ==
    /\ pc = "construct"
    /\ \/ /\ afu_trace' = Append(afu_trace, Call("AFU", "uuid", "", 0, TRUE))
          /\ pc' = "measure_clock"
          /\ UNCHANGED <<argv, num_inputs, num_outputs, i, mem, buf_state, regs,
                         hw_k, total_bytes, num_cls, exc, stdout, stderr, exit_code>>
       \/ Throws("AFU", "uuid") /\ UNCHANGED stdout

\* cout << "Measured AFU Clock Frequency: " << afu.measureClock() / 1e6 << ...
\* When measureClock throws, the label may or may not have been written already
\* (the order of evaluation depends on the language standard of the build).
MainMeasureClock ==
    /\ pc = "measure_clock"
    /\ \/ /\ afu_trace' = Append(afu_trace, Call("measureClock", "clock", "", 0, TRUE))
          /\ stdout' = Append(stdout, Out("clock", 0))
          /\ pc' = "malloc_input"
          /\ UNCHANGED <<argv, num_inputs, num_outputs, i, mem, buf_state, regs,
                         hw_k, total_bytes, num_cls, exc, stderr, exit_code>>
       \/ /\ Throws("measureClock", "clock")
          /\ stdout' \in {stdout, Append(stdout, Out("clock_label", 0))}

\* auto input = afu.malloc<volatile unsigned long>(num_inputs);
MainMallocInput ==
    /\ pc = "malloc_input"
    /\ \/ /\ afu_trace' = Append(afu_trace, Call("malloc", "input", "input", num_inputs, TRUE))
          /\ mem' = [mem EXCEPT !.input = Buffer(num_inputs)]
          /\ buf_state' = [buf_state EXCEPT !.input = "live"]
          /\ pc' = "malloc_output"
          /\ UNCHANGED <<argv, num_inputs, num_outputs, i, regs, hw_k, total_bytes,
                         num_cls, exc, stdout, stderr, exit_code>>
       \/ Throws("malloc", "input") /\ UNCHANGED stdout

\* auto output = afu.malloc<volatile unsigned long long>(num_outputs);
MainMallocOutput ==
    /\ pc = "malloc_output"
    /\ \/ /\ afu_trace' = Append(afu_trace, Call("malloc", "output", "output", num_outputs, TRUE))
          /\ mem' = [mem EXCEPT !.output = Buffer(num_outputs)]
          /\ buf_state' = [buf_state EXCEPT !.output = "live"]
          /\ pc' = "init_input"
          /\ i' = 0
          /\ UNCHANGED <<argv, num_inputs, num_outputs, regs, hw_k, total_bytes,
                         num_cls, exc, stdout, stderr, exit_code>>
       \/ Throws("malloc", "output") /\ UNCHANGED stdout

\* i++ on an unsigned
Incr(x) == (x + 1) % UnsignedMod

\* for (unsigned i=0; i < num_inputs; i++) input[i] = 1;
MainInitInput ==
    /\ pc = "init_input"
    /\ IF i < num_inputs
       THEN /\ mem' = [mem EXCEPT !.input[i + 1] = 1]
            /\ i' = Incr(i)
            /\ pc' = "init_input"
       ELSE /\ i' = 0
            /\ pc' = "init_output"
            /\ mem' = mem
    /\ UNCHANGED <<argv, num_inputs, num_outputs, buf_state, regs, hw_k,
                   total_bytes, num_cls, exc, afu_trace, stdout, stderr, exit_code>>

\* for (unsigned i=0; i < num_outputs; i++) output[i] = 0;
MainInitOutput ==
    /\ pc = "init_output"
    /\ IF i < num_outputs
       THEN /\ mem' = [mem EXCEPT !.output[i + 1] = 0]
            /\ i' = Incr(i)
            /\ pc' = "init_output"
       ELSE /\ i' = 0
            /\ pc' = "write_rd_addr"
            /\ mem' = mem
    /\ UNCHANGED <<argv, num_inputs, num_outputs, buf_state, regs, hw_k,
                   total_bytes, num_cls, exc, afu_trace, stdout, stderr, exit_code>>

----------------------------------------------------------------------------
(* main, lines 84-103: the register protocol *)

\* afu.write(reg, val) that returns, then control at next.
WriteReg(reg, val, next) ==
    /\ afu_trace' = Append(afu_trace, Call("write", reg, "", val, TRUE))
    /\ regs' = [regs EXCEPT ![reg] = val]
    /\ pc' = next
    /\ UNCHANGED <<argv, num_inputs, num_outputs, i, mem, buf_state, hw_k,
                   total_bytes, num_cls, exc, stdout, stderr, exit_code>>

\* afu.write(reg, (uint64_t) ptr) that returns, then control at next.
WriteAddr(reg, ptr, next) ==
    /\ afu_trace' = Append(afu_trace, Call("write", reg, ptr, 0, TRUE))
    /\ regs' = [regs EXCEPT ![reg] = ptr]
    /\ pc' = next
    /\ UNCHANGED <<argv, num_inputs, num_outputs, i, mem, buf_state, hw_k,
                   total_bytes, num_cls, exc, stdout, stderr, exit_code>>

\* afu.write(MMIO_RD_ADDR, (uint64_t) input);
MainWriteRdAddr ==
    /\ pc = "write_rd_addr"
    /\ \/ WriteAddr("MMIO_RD_ADDR", "input", "write_wr_addr")
       \/ Throws("write", "MMIO_RD_ADDR") /\ UNCHANGED stdout

\* The start trigger written where the output address belongs.
MainWriteWrAddr_SkipToGo ==
    /\ pc = "write_wr_addr"
    /\ WriteReg("MMIO_GO", 1, "poll")

\* afu.write(MMIO_WR_ADDR, (uint64_t) output);
MainWriteWrAddr ==
    /\ pc = "write_wr_addr"
    /\ \/ WriteAddr("MMIO_WR_ADDR", "output", "compute_size")
       \/ Throws("write", "MMIO_WR_ADDR") /\ UNCHANGED stdout

\* lines 91-92
MainComputeSize ==
    /\ pc = "compute_size"
    /\ total_bytes' = TotalBytes(num_inputs)
    /\ num_cls' = NumCls(total_bytes')
    /\ pc' = "write_size"
    /\ UNCHANGED <<argv, num_inputs, num_outputs, i, mem, buf_state, regs, hw_k,
                   exc, afu_trace, stdout, stderr, exit_code>>

\* afu.write(MMIO_SIZE, num_cls);
MainWriteSize ==
    /\ pc = "write_size"
    /\ \/ WriteReg("MMIO_SIZE", num_cls, "write_go")
       \/ Throws("write", "MMIO_SIZE") /\ UNCHANGED stdout

\* afu.write(MMIO_GO, 1);
MainWriteGo ==
    /\ pc = "write_go"
    /\ \/ WriteReg("MMIO_GO", 1, "poll")
       \/ Throws("write", "MMIO_GO") /\ UNCHANGED stdout

\* while (afu.read(MMIO_DONE) == 0) {}
\* The number of reads that return 0 is capped by MaxPolls.
MainPollDone ==
    /\ pc = "poll"
    /\ \/ /\ regs.MMIO_DONE # 0 \/ Cardinality(ReadsOfDone) < MaxPolls
          /\ afu_trace' = Append(afu_trace, Call("read", "MMIO_DONE", "", regs.MMIO_DONE, TRUE))
          /\ IF regs.MMIO_DONE = 0
             THEN pc' = "poll" /\ i' = i
             ELSE pc' = "print" /\ i' = 0
          /\ UNCHANGED <<argv, num_inputs, num_outputs, mem, buf_state, regs, hw_k,
                         total_bytes, num_cls, exc, stdout, stderr, exit_code>>
       \/ Throws("read", "MMIO_DONE") /\ UNCHANGED stdout

----------------------------------------------------------------------------
(* main, lines 105-114 *)

\* for (unsigned i=0; i < num_outputs; i++) cout << output[i] << endl;
MainPrintOutput ==
    /\ pc = "print"
    /\ IF i < num_outputs
       THEN /\ stdout' = Append(stdout, Out("output", mem.output[i + 1]))
            /\ i' = Incr(i)
            /\ pc' = "print"
       ELSE /\ i' = i
            /\ pc' = "free_input"
            /\ stdout' = stdout
    /\ UNCHANGED <<argv, num_inputs, num_outputs, mem, buf_state, regs, hw_k,
                   total_bytes, num_cls, exc, afu_trace, stderr, exit_code>>

\* afu.free(ptr) that returns, then control at next.
FreeBuffer(name, next) ==
    /\ afu_trace' = Append(afu_trace, Call("free", name, name, 0, TRUE))
    /\ buf_state' = [buf_state EXCEPT ![name] = "freed"]
    /\ pc' = next
    /\ UNCHANGED <<argv, num_inputs, num_outputs, i, mem, regs, hw_k, total_bytes,
                   num_cls, exc, stdout, stderr, exit_code>>

\* afu.free(input);
MainFreeInput ==
    /\ pc = "free_input"
    /\ \/ FreeBuffer("input", "free_output")
       \/ Throws("free", "input") /\ UNCHANGED stdout

\* afu.free(output);
MainFreeOutput ==
    /\ pc = "free_output"
    /\ \/ FreeBuffer("output", "success")
       \/ Throws("free", "output") /\ UNCHANGED stdout

\* cout << "All DMA Tests Successful!!!" << endl; return EXIT_SUCCESS;
MainSuccess ==
    /\ pc = "success"
    /\ stdout' = Append(stdout, Out("success", 0))
    /\ exit_code' = EXIT_SUCCESS
    /\ pc' = "exit"
    /\ UNCHANGED <<argv, num_inputs, num_outputs, i, mem, buf_state, regs, hw_k,
                   total_bytes, num_cls, exc, afu_trace, stderr>>

----------------------------------------------------------------------------
(* main, lines 118-140: the handlers *)

\* The handler with the first two branches exchanged.
ErrorMessage_Swapped(e) ==
    IF e = "FPGA_BUSY" THEN "not found"
    ELSE IF e = "FPGA_NOT_FOUND" THEN "All FPGAs busy"
    ELSE IF e = "runtime_error" THEN "what"
    ELSE IF e = "no_driver" THEN "No FPGA driver found"
    ELSE "fpgaErrStr"

\* The text written to cerr for the exception e.
ErrorMessage(e) ==
    IF e = "FPGA_BUSY" THEN "All FPGAs busy"
    ELSE IF e = "FPGA_NOT_FOUND" THEN "not found"
    ELSE IF e = "runtime_error" THEN "what"
    ELSE IF e = "no_driver" THEN "No FPGA driver found"
    ELSE "fpgaErrStr"

HandlerExitCode_Success == EXIT_SUCCESS

\* return EXIT_FAILURE; (line 140)
HandlerExitCode == EXIT_FAILURE

\* catch (...) { cerr << ... } return EXIT_FAILURE;
MainCatch ==
    /\ pc = "catch"
    /\ stderr' = Append(stderr, ErrorMessage(exc))
    /\ exit_code' = HandlerExitCode
    /\ pc' = "exit"
    /\ UNCHANGED <<argv, num_inputs, num_outputs, i, mem, buf_state, regs, hw_k,
                   total_bytes, num_cls, exc, afu_trace, stdout>>

Main ==
    \/ MainCheckUsage
    \/ MainPrintUsage
    \/ MainComputeOutputs
    \/ MainConstruct
    \/ MainMeasureClock
    \/ MainMallocInput
    \/ MainMallocOutput
    \/ MainInitInput
    \/ MainInitOutput
    \/ MainWriteRdAddr
    \/ MainWriteWrAddr
    \/ MainComputeSize
    \/ MainWriteSize
    \/ MainWriteGo
    \/ MainPollDone
    \/ MainPrintOutput
    \/ MainFreeInput
    \/ MainFreeOutput
    \/ MainSuccess
    \/ MainCatch

----------------------------------------------------------------------------
(* The accelerator: once started it reads the input buffer from the address in *)
(* MMIO_RD_ADDR, writes to output[k] the sum of input[16k .. 16k+15] for the   *)
(* number of cache lines in MMIO_SIZE, and then raises MMIO_DONE.              *)

RECURSIVE SumRange(_, _, _)
SumRange(f, lo, hi) == IF hi < lo THEN 0 ELSE f[hi] + SumRange(f, lo, hi - 1)

InputsPerCL == CL_BYTES \div SizeofUnsignedLong

\* Output elements the accelerator produces for a transfer of cls cache lines.
AccelOutputs(cls) == (cls * InputsPerCL) \div InputsPerOutput

AccelTransfer ==
    /\ regs.MMIO_GO = 1
    /\ regs.MMIO_DONE = 0
    /\ hw_k < AccelOutputs(regs.MMIO_SIZE)
    /\ mem' = [mem EXCEPT ![regs.MMIO_WR_ADDR][hw_k + 1] =
                 SumRange(mem[regs.MMIO_RD_ADDR], InputsPerOutput * hw_k + 1,
                          InputsPerOutput * hw_k + InputsPerOutput)]
    /\ hw_k' = hw_k + 1
    /\ UNCHANGED <<argv, pc, num_inputs, num_outputs, i, buf_state, regs,
                   total_bytes, num_cls, exc, afu_trace, stdout, stderr, exit_code>>

AccelDone ==
    /\ regs.MMIO_GO = 1
    /\ regs.MMIO_DONE = 0
    /\ hw_k = AccelOutputs(regs.MMIO_SIZE)
    /\ regs' = [regs EXCEPT !.MMIO_DONE = 1]
    /\ UNCHANGED <<argv, pc, num_inputs, num_outputs, i, mem, buf_state, hw_k,
                   total_bytes, num_cls, exc, afu_trace, stdout, stderr, exit_code>>

Accelerator == AccelTransfer \/ AccelDone

Next == Main \/ Accelerator

Spec == Init /\ [][Next]_vars

\* The program is a running thread and the accelerator is running hardware:
\* each takes its next step when it has one.
FairSpec == Spec /\ WF_vars(Main) /\ WF_vars(Accelerator)

----------------------------------------------------------------------------
(* Vocabulary of the properties *)

UsageRejected ==
    pc = "usage" \/ \E k \in DOMAIN stdout : stdout[k].kind = "usage"

UsageAccepted == pc # "start" /\ ~UsageRejected

Exited == pc = "exit"

Calls(op, arg) ==
    {k \in DOMAIN afu_trace :
        afu_trace[k].op = op /\ afu_trace[k].arg = arg /\ afu_trace[k].ok}

Writes(reg) == Calls("write", reg)

AllWrites == {k \in DOMAIN afu_trace : afu_trace[k].op = "write" /\ afu_trace[k].ok}

DoneObserved ==
    \E k \in Calls("read", "MMIO_DONE") : afu_trace[k].val # 0

PrintedOutputs == {k \in DOMAIN stdout : stdout[k].kind = "output"}

SuccessPrinted == \E k \in DOMAIN stdout : stdout[k].kind = "success"

\* The integer a decimal numeral denotes, with no limit of width: optional white
\* space, an optional sign and at least one digit.
RECURSIVE StripSpaces(_)
StripSpaces(s) ==
    IF s # <<>> /\ Head(s) = " " THEN StripSpaces(Tail(s)) ELSE s

Unsigned(s) == IF s # <<>> /\ Head(s) \in {"+", "-"} THEN Tail(s) ELSE s

RECURSIVE DecimalValue(_)
DecimalValue(d) ==
    IF d = <<>> THEN 0
    ELSE 10 * DecimalValue(SubSeq(d, 1, Len(d) - 1)) + DigitVal(d[Len(d)])

IsNumeral(s) ==
    LET d == Unsigned(StripSpaces(s))
    IN d # <<>> /\ \A k \in DOMAIN d : IsDigit(d[k])

Denoted(s) ==
    LET t == StripSpaces(s)
        v == DecimalValue(Unsigned(t))
    IN IF Head(t) = "-" THEN 0 - v ELSE v

DenotesPositiveMultiple(s) ==
    IsNumeral(s) /\ Denoted(s) > 0 /\ Denoted(s) % Multiple = 0

----------------------------------------------------------------------------
(* C1 *)

\* C1: checkUsage returns true if and only if there is exactly one argument and
\* it denotes a positive integer that is a multiple of 128, and on acceptance
\* num_inputs is the integer the argument denotes.
C1_CheckUsageIff ==
    pc # "start" =>
        /\ UsageAccepted <=> (Len(argv) = 2 /\ DenotesPositiveMultiple(argv[2]))
        /\ UsageAccepted => num_inputs = Denoted(argv[2])

----------------------------------------------------------------------------
(* C2 *)

\* C2: a run that has ended returned 0 exactly when the transfer completed and
\* the results (every output value and the closing success line) were printed,
\* and returned 1 exactly when the usage check failed or an exception was raised
\* by an AFU call; every exception ends in exit code 1.
C2_ExitCode ==
    Exited =>
        /\ exit_code \in {EXIT_SUCCESS, EXIT_FAILURE}
        /\ exit_code = EXIT_SUCCESS <=>
              /\ DoneObserved
              /\ Cardinality(PrintedOutputs) * InputsPerOutput = num_inputs
              /\ SuccessPrinted
        /\ exit_code = EXIT_FAILURE <=> (UsageRejected \/ exc # NoExc)

C2_Witness ==
    /\ Exited
    /\ exc = "runtime_error"
    /\ DoneObserved
    /\ afu_trace[Len(afu_trace)].op = "free"

----------------------------------------------------------------------------
(* C3 *)

AfterInit ==
    pc \in {"write_rd_addr", "write_wr_addr", "compute_size", "write_size", "write_go"}

AfterPrint == pc \in {"free_input", "free_output", "success"} \/ SuccessPrinted

\* C3: the output buffer has exactly n / 16 elements (n = 16 * its length), all
\* of them hold 0 when the registers are programmed and the transfer is
\* started, and exactly n / 16 values have been printed once printing is over.
C3_OutputLength ==
    /\ buf_state.output # "none" =>
          Len(mem.output) * InputsPerOutput = num_inputs
    /\ AfterInit =>
          \A j \in DOMAIN mem.output : mem.output[j] = 0
    /\ PrintedOutputs # {} => DoneObserved
    /\ AfterPrint =>
          Cardinality(PrintedOutputs) * InputsPerOutput = num_inputs

C3_Witness ==
    /\ exit_code = EXIT_SUCCESS
    /\ num_inputs = 3 * Multiple
    /\ Cardinality(PrintedOutputs) = 24

----------------------------------------------------------------------------
(* C4 *)

\* C4: when the start trigger is written every input element holds 1 and every
\* output element holds 0, and on a successful run every printed output value
\* is 16.
C4_AllSixteen ==
    /\ pc = "write_go" =>
          /\ \A j \in DOMAIN mem.input : mem.input[j] = 1
          /\ \A j \in DOMAIN mem.output : mem.output[j] = 0
    /\ exit_code = EXIT_SUCCESS =>
          /\ Cardinality(PrintedOutputs) * InputsPerOutput = num_inputs
          /\ \A k \in PrintedOutputs : stdout[k].val = 16

----------------------------------------------------------------------------
(* C5 *)

\* C5: the read address, the write address and the size are each written at
\* most once, in that order, and exactly once before the start trigger; the
\* start trigger is written at most once; the done flag is read only after the
\* start trigger; no register is written after the start trigger.
C5_RegisterOrder ==
    /\ \A reg \in {"MMIO_RD_ADDR", "MMIO_WR_ADDR", "MMIO_SIZE", "MMIO_GO"} :
          Cardinality(Writes(reg)) <= 1
    /\ \A g \in Writes("MMIO_GO") :
          /\ \E r \in Writes("MMIO_RD_ADDR") : \E w \in Writes("MMIO_WR_ADDR") :
                \E z \in Writes("MMIO_SIZE") : r < w /\ w < z /\ z < g
          /\ \A k \in AllWrites : k <= g
    /\ \A k \in DOMAIN afu_trace :
          afu_trace[k].op = "read" => \E g \in Writes("MMIO_GO") : g < k
    /\ \A k \in AllWrites :
          afu_trace[k].arg \in {"MMIO_RD_ADDR", "MMIO_WR_ADDR", "MMIO_SIZE", "MMIO_GO"}

C5_Witness ==
    /\ Cardinality(Calls("read", "MMIO_DONE")) >= 2
    /\ Cardinality(AllWrites) = 4
    /\ DoneObserved

----------------------------------------------------------------------------
(* C6 *)

FailedCalls == {k \in DOMAIN afu_trace : ~afu_trace[k].ok}

\* The message the handlers owe to a driver error code.
DriverMessage(e) ==
    CASE e = "FPGA_BUSY" -> "All FPGAs busy"
      [] e = "FPGA_NOT_FOUND" -> "not found"
      [] OTHER -> "fpgaErrStr"

DriverCodes == {"FPGA_BUSY", "FPGA_NOT_FOUND", "FPGA_EXCEPTION", "FPGA_NO_MEMORY"}

\* C6: once an AFU call has raised an error no further AFU call is made, the
\* success line is never printed, and the run ends with exactly one error
\* message, the one its error code determines, and with exit code 1.
C6_DriverError ==
    /\ \A k \in FailedCalls : k = Len(afu_trace)
    /\ exc # NoExc <=> FailedCalls # {}
    /\ Len(stderr) <= 1
    /\ exc # NoExc =>
          /\ ~SuccessPrinted
          /\ pc \in {"catch", "exit"}
          /\ pc = "catch" => stderr = <<>>
          /\ Exited => Len(stderr) = 1 /\ exit_code = EXIT_FAILURE
          /\ (Exited /\ exc \in DriverCodes) => stderr = <<DriverMessage(exc)>>

C6_Witness ==
    /\ Exited
    /\ exc = "FPGA_BUSY"
    /\ Cardinality(AllWrites) = 2
    /\ stderr # <<>>

----------------------------------------------------------------------------
(* C7 *)

\* C7: the value written to the size register is the number of 64-byte cache
\* lines that cover the input buffer, ceil(n * 8 / 64) = n / 8, for every
\* accepted n.
C7_SizeIsCacheLines ==
    \A k \in Writes("MMIO_SIZE") :
        /\ afu_trace[k].val * CL_BYTES >= num_inputs * SizeofUnsignedLong
        /\ (afu_trace[k].val - 1) * CL_BYTES < num_inputs * SizeofUnsignedLong
        /\ afu_trace[k].val * SizeofUnsignedLong = num_inputs

----------------------------------------------------------------------------
(* C8 *)

GoWritten == Writes("MMIO_GO") # {}

\* C8: every accepted run in which no AFU call raises an error ends with exit
\* code 0 (the three loops end, given that the accelerator raises the done
\* flag), and no run leaves the poll loop before it has read a non-zero done
\* flag.
C8_Terminates ==
    /\ (pc = "compute_outputs") ~> (exit_code = EXIT_SUCCESS \/ exc # NoExc)
    /\ []((GoWritten /\ exc = NoExc /\ pc # "poll") => DoneObserved)

----------------------------------------------------------------------------
(* C9 *)

SoftwareAccessesBuffers ==
    pc \in {"init_input", "init_output", "print"}

\* C9: the output buffer is printed only after the done flag was read as
\* non-zero, a buffer is freed only after every output was printed, software
\* touches no buffer that was freed, and a run that has ended has freed every
\* buffer it allocated.
C9_Lifecycle ==
    /\ PrintedOutputs # {} => DoneObserved
    /\ \A b \in {"input", "output"} :
          buf_state[b] = "freed" =>
              /\ Cardinality(PrintedOutputs) * InputsPerOutput = num_inputs
              /\ ~SoftwareAccessesBuffers
    /\ Exited => \A b \in {"input", "output"} : buf_state[b] # "live"

----------------------------------------------------------------------------
(* C10 *)

\* C10: when the argument check fails the program prints the usage text and
\* returns 1 without any AFU call: no handle, no buffer, no register access.
C10_UsageFrame ==
    UsageRejected =>
        /\ afu_trace = <<>>
        /\ \A b \in {"input", "output"} : buf_state[b] = "none"
        /\ mem = [input |-> <<>>, output |-> <<>>]
        /\ regs = [MMIO_RD_ADDR |-> "null", MMIO_WR_ADDR |-> "null",
                   MMIO_SIZE |-> 0, MMIO_GO |-> 0, MMIO_DONE |-> 0]
        /\ stderr = <<>>
        /\ pc \in {"usage", "exit"}
        /\ Exited => stdout = <<Out("usage", 0)>> /\ exit_code = EXIT_FAILURE

C10_Witness ==
    /\ Exited
    /\ UsageRejected
    /\ Len(argv) = 2
    /\ num_inputs = 100

====
